---- MODULE Spec2Model ----
(***************************************************************************)
(* Model of monai/utils/aliases.py: the global alias table GlobalAliases,  *)
(* the reentrant lock alias_lock, the decorator alias and the function     *)
(* resolve_name.  Each thread runs the two functions statement by          *)
(* statement; the interpreter runs with assert statements enabled (the     *)
(* default mode).                                                          *)
(***************************************************************************)
EXTENDS Integers, Sequences, FiniteSets, TLC

(***************************************************************************)
(* Bounds and the finite universe of names, modules and values.            *)
(***************************************************************************)
\* total number of calls (alias or resolve_name) made in one behaviour
MaxCalls == 2

Threads == {"t1", "t2"}

\* a name is the sequence of its characters; "." separates module path and member
Sep == "."
N_f == <<"f">>
N_g == <<"g">>
N_Af == <<"A", ".", "f">>
N_pBf == <<"p", ".", "B", ".", "f">>
N_Xf == <<"X", ".", "f">>

\* names that alias() is called with, and names that resolve_name() is called with
AliasNames == {N_f, N_g, N_Af}
ResolveNames == {N_f, N_g, N_Af, N_pBf, N_Xf}
\* the tuples of names the modelled alias() calls are made with
NameTuples == {<<N_f>>, <<N_Af>>, <<N_f, N_g>>}

\* modules that exist on the import path: A, the package p and its submodule p.B
M_A == <<"A">>
M_p == <<"p">>
M_pB == <<"p", ".", "B">>
Modules == {M_A, M_p, M_pB}
MemberNames == {N_f}

\* Python values: None, the falsy integer 0, a truthy constant that belongs to no
\* module, a function defined in module A and a function defined in module p.B
None == "None"
Zero == "Zero"
Five == "Five"
FunA == "FunA"
FunB == "FunB"
Values == {None, Zero, Five, FunA, FunB}
\* marker of a missing dictionary key or a missing attribute (not a Python value)
Absent == "ABSENT"
NoModule == <<>>
NoThread == "nobody"

\* objects handed to the decorator in the concurrent specification
Declarations == {None, FunA, FunB}

(***************************************************************************)
(* State.                                                                  *)
(***************************************************************************)
VARIABLES
    GlobalAliases,  \* aliases.py:19, name -> value, Absent where the key is missing
    alias_lock,     \* aliases.py:18, RLock: [owner, count]
    sys_modules,    \* sys.modules: the set of loaded modules
    attrs,          \* the namespace of every module: module -> member -> value
    pc,             \* per thread: the statement it is at
    names,          \* per thread: alias(): the names still to be stored
    name,           \* per thread: resolve_name(): the argument
    obj,            \* per thread: the local obj of _outer / resolve_name
    ret,            \* per thread: outcome of the finished call
    seen,           \* per thread (history): what the running resolve_name observed
    log,            \* history: the alias() calls made, in the order they started
    latest,         \* history: name -> the object of the last store made under it
    calls           \* number of calls started

vars == <<GlobalAliases, alias_lock, sys_modules, attrs, pc, names, name, obj, ret,
          seen, log, latest, calls>>

(***************************************************************************)
(* Outcomes of a call: a returned value or a raised exception.  The four   *)
(* ValueError messages of resolve_name are told apart by kind.             *)
(***************************************************************************)
Returned(v) == [kind |-> "return", value |-> v, mods |-> {}]
Raised(k) == [kind |-> k, value |-> None, mods |-> {}]
RaisedAmbiguous(ms) == [kind |-> "AmbiguousName", value |-> None, mods |-> ms]
NoOutcome == [kind |-> "none", value |-> None, mods |-> {}]
ValueErrorKinds == {"ModuleNotFound", "MissingMember", "NotFound", "AmbiguousName"}

(***************************************************************************)
(* Library and built-in operations the two functions use.                  *)
(***************************************************************************)
\* faulty variant of StoreAlias: the table is replaced by one holding n alone
StoreAliasOnly(table, n, o) == [k \in DOMAIN table |-> IF k = n THEN o ELSE Absent]
\* GlobalAliases[n] = obj
StoreAlias(table, n, o) == [table EXCEPT ![n] = o]

\* name in GlobalAliases
InAliases(table, n) == n \in DOMAIN table /\ table[n] # Absent

\* the entry stored under n, Absent when there is none (history only)
Entry(table, n) == IF InAliases(table, n) THEN table[n] ELSE Absent

\* GlobalAliases.get(name, None)
DictGet(table, n) == IF InAliases(table, n) THEN table[n] ELSE None

\* "." in name
HasSep(n) == \E i \in 1..Len(n) : n[i] = Sep

\* the two parts of n around its i-th character
SplitAt(n, i) == [modname |-> SubSeq(n, 1, i - 1), declname |-> SubSeq(n, i + 1, Len(n))]
\* faulty variant of rsplit: split at the first separator
split_first(n) == SplitAt(n, CHOOSE i \in 1..Len(n) : n[i] = Sep /\ \A j \in 1..(i - 1) : n[j] # Sep)
\* name.rsplit(".", 1)
rsplit(n) == SplitAt(n, CHOOSE i \in 1..Len(n) : n[i] = Sep /\ \A j \in (i + 1)..Len(n) : n[j] # Sep)

\* the packages a module lies in: importing p.B imports p first
Parents(m) == {SubSeq(m, 1, i - 1) : i \in {j \in 1..Len(m) : m[j] = Sep}}

\* importlib.import_module(modname) finds the module or raises ModuleNotFoundError
Importable(modname) == modname \in Modules
AfterImport(loaded, modname) == loaded \cup {modname} \cup Parents(modname)

\* hasattr(m, n)
HasAttr(ns, m, n) == n \in DOMAIN ns[m] /\ ns[m][n] # Absent

\* getattr(m, n, None)
GetAttr(ns, m, n) == IF HasAttr(ns, m, n) THEN ns[m][n] ELSE None

\* bool(v)
Truthy(v) == v \notin {None, Zero}

\* the module named by v.__module__, NoModule for a value that has none
DeclModule(v) == CASE v = FunA -> M_A [] v = FunB -> M_pB [] OTHER -> NoModule

\* inspect.getmodule(v): sys.modules.get(v.__module__), None (NoModule) otherwise
getmodule(loaded, v) == IF DeclModule(v) \in loaded THEN DeclModule(v) ELSE NoModule

(***************************************************************************)
(* The three strategies of resolve_name as functions of what they read.    *)
(* Each gives the value assigned to obj (kind "obj") or the exception      *)
(* raised.                                                                 *)
(***************************************************************************)
Found(v) == [kind |-> "obj", value |-> v, mods |-> {}]

\* faulty variant of QualifiedLookup: a missing member is not raised, obj stays
\* None and the scan of the loaded modules follows
QualifiedFallThrough(ns, n) ==
    LET modname == rsplit(n).modname
        declname == rsplit(n).declname
    IN  IF ~Importable(modname) THEN Raised("ModuleNotFound")
        ELSE Found(GetAttr(ns, modname, declname))
\* lines 50-60, for a name with a separator and obj None
QualifiedLookup(ns, n) ==
    LET modname == rsplit(n).modname
        declname == rsplit(n).declname
    IN  IF ~Importable(modname) THEN Raised("ModuleNotFound")
        ELSE IF GetAttr(ns, modname, declname) = None THEN Raised("MissingMember")
        ELSE Found(GetAttr(ns, modname, declname))

\* faulty variant of CandidateMods: "is not None" in place of truthiness
PresentMods(ns, loaded, n) == {m \in loaded : GetAttr(ns, m, n) # None}
\* line 67: the loaded modules whose attribute n is truthy
CandidateMods(ns, loaded, n) == {m \in loaded : Truthy(GetAttr(ns, m, n))}

\* faulty variant of FoundMods: the exposing modules, imports not resolved
FoundModsUnresolved(ns, loaded, n) == CandidateMods(ns, loaded, n)
\* lines 71-72: the modules defining the candidates' attributes, None dropped
FoundMods(ns, loaded, n) ==
    {getmodule(loaded, GetAttr(ns, m, n)) : m \in CandidateMods(ns, loaded, n)} \ {NoModule}

\* getattr(mods[0], name) at line 81 and the check of line 83
AttrOfFirst(ns, ms, n) ==
    IF ms = {} THEN Raised("IndexError")
    ELSE LET m == CHOOSE x \in ms : TRUE
         IN  IF ~HasAttr(ns, m, n) THEN Raised("AttributeError")
             ELSE IF ns[m][n] = None THEN Raised("NotFound")
             ELSE Found(ns[m][n])

\* lines 63-84, for obj None
SimpleLookup(ns, loaded, n) ==
    LET mods == CandidateMods(ns, loaded, n)
        foundmods == FoundMods(ns, loaded, n)
    IN  IF mods = {} THEN Raised("NotFound")
        ELSE IF Cardinality(mods) > 1
             THEN IF Cardinality(foundmods) > 1 THEN RaisedAmbiguous(foundmods)
                  ELSE AttrOfFirst(ns, foundmods, n)
             ELSE AttrOfFirst(ns, mods, n)

(***************************************************************************)
(* Initial states.                                                         *)
(***************************************************************************)
Unlocked == [owner |-> NoThread, count |-> 0]
NothingSeen == [atRead |-> Absent, atCheck |-> Absent, latest |-> Absent,
                imported |-> FALSE, scanned |-> FALSE, loaded |-> {}]
Namespaces == [Modules -> [MemberNames -> Values \cup {Absent}]]
\* A defines f, the package p imports it from A, p.B defines its own f
TypicalNamespace ==
    (M_A :> (N_f :> FunA)) @@ (M_p :> (N_f :> FunA)) @@ (M_pB :> (N_f :> FunB))
\* a loaded submodule has its package loaded
LoadedSets == {L \in SUBSET Modules : \A m \in L : Parents(m) \subseteq L}
EmptyAliases == [n \in AliasNames |-> Absent]
\* alias tables holding at most one entry
SmallAliasTables ==
    {EmptyAliases} \cup {StoreAlias(EmptyAliases, n, v) : n \in AliasNames, v \in Values}

ThreadsIdle ==
    /\ alias_lock = Unlocked
    /\ pc = [t \in Threads |-> "idle"]
    /\ names = [t \in Threads |-> <<>>]
    /\ name = [t \in Threads |-> <<>>]
    /\ obj = [t \in Threads |-> None]
    /\ ret = [t \in Threads |-> NoOutcome]
    /\ seen = [t \in Threads |-> NothingSeen]
    /\ log = <<>>

\* the process after importing aliases.py: an empty table, module A loaded
Init ==
    /\ GlobalAliases = EmptyAliases
    /\ latest = EmptyAliases
    /\ sys_modules = {M_A}
    /\ attrs = TypicalNamespace
    /\ calls = 0
    /\ ThreadsIdle

\* any small alias table, any namespaces, any loaded modules; one call is left
InitResolve ==
    /\ GlobalAliases \in SmallAliasTables
    /\ latest = GlobalAliases
    /\ sys_modules \in LoadedSets
    /\ attrs \in Namespaces
    /\ calls = MaxCalls - 1
    /\ ThreadsIdle

(***************************************************************************)
(* alias(names)(obj), lines 22-34.                                         *)
(***************************************************************************)
CanAcquire(t) == alias_lock.owner \in {NoThread, t}
Acquired(t) == [owner |-> t, count |-> alias_lock.count + 1]
Released(t) ==
    IF alias_lock.count = 1 THEN Unlocked
    ELSE [owner |-> t, count |-> alias_lock.count - 1]

\* thread u is inside a call of the decorator
InAlias(u) == pc[u] \in {"a_for", "a_acquire", "a_store", "a_release"}

\* the call alias(ns)(o)
CallAlias(t) ==
    /\ pc[t] \in {"idle", "done"}
    /\ calls < MaxCalls
    /\ \E ns \in NameTuples, o \in Declarations :
          /\ names' = [names EXCEPT ![t] = ns]
          /\ obj' = [obj EXCEPT ![t] = o]
          /\ log' = Append(log, [thread |-> t, names |-> ns, obj |-> o,
                                  during |-> {u \in Threads : InAlias(u)}])
    /\ pc' = [pc EXCEPT ![t] = "a_for"]
    /\ name' = [name EXCEPT ![t] = <<>>]
    /\ ret' = [ret EXCEPT ![t] = NoOutcome]
    /\ seen' = [seen EXCEPT ![t] = NothingSeen]
    /\ calls' = calls + 1
    /\ UNCHANGED <<GlobalAliases, alias_lock, sys_modules, attrs, latest>>

\* line 28 "for n in names" and line 32 "return obj"
AliasFor(t) ==
    /\ pc[t] = "a_for"
    /\ IF names[t] = <<>>
       THEN /\ pc' = [pc EXCEPT ![t] = "done"]
            /\ ret' = [ret EXCEPT ![t] = Returned(obj[t])]
       ELSE /\ pc' = [pc EXCEPT ![t] = "a_acquire"]
            /\ ret' = ret
    /\ UNCHANGED <<GlobalAliases, alias_lock, sys_modules, attrs, names, name, obj,
                   seen, log, latest, calls>>

\* line 29 "with alias_lock": enter
AliasAcquire(t) ==
    /\ pc[t] = "a_acquire"
    /\ CanAcquire(t)
    /\ alias_lock' = Acquired(t)
    /\ pc' = [pc EXCEPT ![t] = "a_store"]
    /\ UNCHANGED <<GlobalAliases, sys_modules, attrs, names, name, obj, ret, seen,
                   log, latest, calls>>

\* line 30 "GlobalAliases[n] = obj"
AliasStore(t) ==
    /\ pc[t] = "a_store"
    /\ GlobalAliases' = StoreAlias(GlobalAliases, Head(names[t]), obj[t])
    /\ latest' = [latest EXCEPT ![Head(names[t])] = obj[t]]
    /\ pc' = [pc EXCEPT ![t] = "a_release"]
    /\ UNCHANGED <<alias_lock, sys_modules, attrs, names, name, obj, ret, seen,
                   log, calls>>

\* line 29 "with alias_lock": exit, and the loop moves to the next name
AliasRelease(t) ==
    /\ pc[t] = "a_release"
    /\ alias_lock' = Released(t)
    /\ names' = [names EXCEPT ![t] = Tail(names[t])]
    /\ pc' = [pc EXCEPT ![t] = "a_for"]
    /\ UNCHANGED <<GlobalAliases, sys_modules, attrs, name, obj, ret, seen, log,
                   latest, calls>>

(***************************************************************************)
(* resolve_name(name), lines 37-86.                                        *)
(***************************************************************************)
\* the call resolve_name(n)
CallResolve(t) ==
    /\ pc[t] \in {"idle", "done"}
    /\ calls < MaxCalls
    /\ \E n \in ResolveNames : name' = [name EXCEPT ![t] = n]
    /\ pc' = [pc EXCEPT ![t] = "r_acquire"]
    /\ names' = [names EXCEPT ![t] = <<>>]
    /\ obj' = [obj EXCEPT ![t] = None]
    /\ ret' = [ret EXCEPT ![t] = NoOutcome]
    /\ seen' = [seen EXCEPT ![t] = NothingSeen]
    /\ calls' = calls + 1
    /\ UNCHANGED <<GlobalAliases, alias_lock, sys_modules, attrs, log, latest>>

\* line 44 "with alias_lock": enter
ResolveAcquire(t) ==
    /\ pc[t] = "r_acquire"
    /\ CanAcquire(t)
    /\ alias_lock' = Acquired(t)
    /\ pc' = [pc EXCEPT ![t] = "r_get"]
    /\ UNCHANGED <<GlobalAliases, sys_modules, attrs, names, name, obj, ret, seen,
                   log, latest, calls>>

\* line 45 "obj = GlobalAliases.get(name, None)"
ResolveGet(t) ==
    /\ pc[t] = "r_get"
    /\ obj' = [obj EXCEPT ![t] = DictGet(GlobalAliases, name[t])]
    /\ seen' = [seen EXCEPT ![t].atRead = Entry(GlobalAliases, name[t]),
                             ![t].latest = Entry(latest, name[t])]
    /\ pc' = [pc EXCEPT ![t] = "r_release"]
    /\ UNCHANGED <<GlobalAliases, alias_lock, sys_modules, attrs, names, name, ret,
                   log, latest, calls>>

\* line 44 "with alias_lock": exit
ResolveRelease(t) ==
    /\ pc[t] = "r_release"
    /\ alias_lock' = Released(t)
    /\ pc' = [pc EXCEPT ![t] = "r_assert"]
    /\ UNCHANGED <<GlobalAliases, sys_modules, attrs, names, name, obj, ret, seen,
                   log, latest, calls>>

\* line 47 "assert name not in GlobalAliases or obj is not None"
AssertHolds(t) == ~InAliases(GlobalAliases, name[t]) \/ obj[t] # None
ResolveAssert(t) ==
    /\ pc[t] = "r_assert"
    /\ seen' = [seen EXCEPT ![t].atCheck = Entry(GlobalAliases, name[t])]
    /\ IF AssertHolds(t)
       THEN /\ pc' = [pc EXCEPT ![t] = "r_qualified"]
            /\ ret' = ret
       ELSE /\ pc' = [pc EXCEPT ![t] = "done"]
            /\ ret' = [ret EXCEPT ![t] = Raised("AssertionError")]
    /\ UNCHANGED <<GlobalAliases, alias_lock, sys_modules, attrs, names, name, obj,
                   log, latest, calls>>

\* lines 50-60: the qualified name; import_module loads the module it finds
ResolveQualified(t) ==
    /\ pc[t] = "r_qualified"
    /\ IF obj[t] = None /\ HasSep(name[t])
       THEN LET r == QualifiedLookup(attrs, name[t])
                modname == rsplit(name[t]).modname
            IN  /\ sys_modules' = IF Importable(modname)
                                  THEN AfterImport(sys_modules, modname)
                                  ELSE sys_modules
                /\ seen' = [seen EXCEPT ![t].imported = TRUE]
                /\ IF r.kind = "obj"
                   THEN /\ obj' = [obj EXCEPT ![t] = r.value]
                        /\ pc' = [pc EXCEPT ![t] = "r_simple"]
                        /\ ret' = ret
                   ELSE /\ obj' = obj
                        /\ pc' = [pc EXCEPT ![t] = "done"]
                        /\ ret' = [ret EXCEPT ![t] = r]
       ELSE /\ pc' = [pc EXCEPT ![t] = "r_simple"]
            /\ UNCHANGED <<sys_modules, seen, obj, ret, latest>>
    /\ UNCHANGED <<GlobalAliases, alias_lock, attrs, names, name, log, latest, calls>>

\* lines 63-86: the scan of the loaded modules, and "return obj"
ResolveSimple(t) ==
    /\ pc[t] = "r_simple"
    /\ pc' = [pc EXCEPT ![t] = "done"]
    /\ IF obj[t] = None
       THEN LET r == SimpleLookup(attrs, sys_modules, name[t])
            IN  /\ seen' = [seen EXCEPT ![t].scanned = TRUE, ![t].loaded = sys_modules]
                /\ IF r.kind = "obj"
                   THEN /\ obj' = [obj EXCEPT ![t] = r.value]
                        /\ ret' = [ret EXCEPT ![t] = Returned(r.value)]
                   ELSE /\ obj' = obj
                        /\ ret' = [ret EXCEPT ![t] = r]
       ELSE /\ ret' = [ret EXCEPT ![t] = Returned(obj[t])]
            /\ UNCHANGED <<seen, obj, latest>>
    /\ UNCHANGED <<GlobalAliases, alias_lock, sys_modules, attrs, names, name, log,
                   latest, calls>>

(***************************************************************************)
(* Specifications.                                                         *)
(***************************************************************************)
\* threads calling alias and resolve_name concurrently
Next ==
    \E t \in Threads :
        \/ CallAlias(t)
        \/ AliasFor(t)
        \/ AliasAcquire(t)
        \/ AliasStore(t)
        \/ AliasRelease(t)
        \/ CallResolve(t)
        \/ ResolveAcquire(t)
        \/ ResolveGet(t)
        \/ ResolveRelease(t)
        \/ ResolveAssert(t)
        \/ ResolveQualified(t)
        \/ ResolveSimple(t)

Spec == Init /\ [][Next]_vars

\* one thread making one resolve_name call
NextResolve ==
    \/ CallResolve("t1")
    \/ ResolveAcquire("t1")
    \/ ResolveGet("t1")
    \/ ResolveRelease("t1")
    \/ ResolveAssert("t1")
    \/ ResolveQualified("t1")
    \/ ResolveSimple("t1")

SpecResolve == InitResolve /\ [][NextResolve]_vars

(***************************************************************************)
(* Properties.  They describe the names, modules and values on their own   *)
(* terms (ModulePart, MemberPart, DefinedIn, Exposes), not through the     *)
(* operators the actions are built from.                                   *)
(***************************************************************************)
\* thread t has finished a call of resolve_name / of the decorator
ResolveDone(t) == pc[t] = "done" /\ name[t] # <<>>
AllReturned == \A t \in Threads : pc[t] \in {"idle", "done"}

\* the name was in the alias table neither at the read of line 45 nor at line 47
Unbound(t) == seen[t].atRead = Absent /\ seen[t].atCheck = Absent

\* module path and member of the qualified names
ModulePart(n) ==
    CASE n = N_Af -> M_A [] n = N_pBf -> M_pB [] n = N_Xf -> <<"X">> [] OTHER -> NoModule
MemberPart(n) == IF n \in {N_Af, N_pBf, N_Xf} THEN N_f ELSE <<>>
Qualified(n) == n \in {N_Af, N_pBf, N_Xf}

\* the module a function was defined in
DefinedIn(v) == IF v = FunA THEN M_A ELSE IF v = FunB THEN M_pB ELSE NoModule

\* module m has an attribute n / one with a truthy value
Exposes(m, n) == m \in Modules /\ n \in MemberNames /\ attrs[m][n] # Absent
ExposesTruthy(m, n) == Exposes(m, n) /\ attrs[m][n] \notin {None, Zero}
\* the loaded modules thread t scanned that expose a truthy attribute n
TruthyMods(t, n) == {m \in seen[t].loaded : ExposesTruthy(m, n)}
\* the loaded modules that define the attributes those modules expose
DefiningMods(t, n) ==
    {DefinedIn(attrs[m][n]) : m \in TruthyMods(t, n)} \cap seen[t].loaded

\* C1: a resolve_name call that reads a name some alias call has stored returns,
\* by identity, the object of the most recent store under that name, whatever
\* object that is
C1_RoundTrip ==
    \A t \in Threads :
        (ResolveDone(t) /\ seen[t].latest # Absent) => ret[t] = Returned(seen[t].latest)

\* thread t is at a statement inside "with alias_lock"
UnderLock(t) == pc[t] \in {"a_store", "a_release", "r_get", "r_release"}
\* the alias calls made so far were on pairwise disjoint names
DisjointCalls ==
    \A i, j \in DOMAIN log :
        i # j => \A a \in DOMAIN log[i].names, b \in DOMAIN log[j].names :
                    log[i].names[a] # log[j].names[b]
\* C2: once all calls have returned, if the alias calls made were on pairwise
\* disjoint names, every name of every call is bound to the object of its own
\* call; and the store of alias and the read of resolve_name exclude each other
C2_NoLostUpdate ==
    /\ (AllReturned /\ DisjointCalls) =>
           \A i \in DOMAIN log : \A a \in DOMAIN log[i].names :
               GlobalAliases[log[i].names[a]] = log[i].obj
    /\ \A t, u \in Threads : (UnderLock(t) /\ UnderLock(u)) => t = u
\* two threads stored disjoint names, the second call starting inside the first
C2_Witness ==
    /\ AllReturned
    /\ DisjointCalls
    /\ Len(log) = 2
    /\ log[1].names = <<N_f, N_g>>
    /\ log[2].names = <<N_Af>>
    /\ log[1].thread # log[2].thread
    /\ log[2].during = {log[1].thread}
    /\ log[1].obj # log[2].obj
    /\ GlobalAliases[N_f] = log[1].obj
    /\ GlobalAliases[N_g] = log[1].obj
    /\ GlobalAliases[N_Af] = log[2].obj

\* C3: a resolve_name call whose read found the name unbound never fails the check
\* of line 47 because an alias call stored a declaration under the name in between
C3_CheckHoldsUnderRace ==
    \A t \in Threads :
        (/\ pc[t] = "r_assert"
         /\ seen[t].atRead = Absent
         /\ Entry(GlobalAliases, name[t]) # None) => AssertHolds(t)

\* C4: when the name is bound in the alias table, resolve_name returns the bound
\* object and neither imports a module nor scans the loaded modules
C4_AliasWins ==
    \A t \in Threads :
        (ResolveDone(t) /\ seen[t].atRead # Absent) =>
            /\ ret[t] = Returned(seen[t].atRead)
            /\ ~seen[t].imported
            /\ ~seen[t].scanned

\* C5 as stated: for a qualified name whose module is importable and defines the
\* member, resolve_name returns the module's attribute whatever the alias table
\* holds (here: also when it holds a declaration under that very name)
C5_QualifiedIgnoresAliases ==
    \A t \in Threads :
        (/\ ResolveDone(t)
         /\ Qualified(name[t])
         /\ seen[t].atRead # None
         /\ ExposesTruthy(ModulePart(name[t]), MemberPart(name[t]))) =>
            ret[t] = Returned(attrs[ModulePart(name[t])][MemberPart(name[t])])

\* C5 amended: for a qualified name that is not bound in the alias table during the
\* call and whose module is importable and has the member with a value other than
\* None, resolve_name returns that attribute and does not scan the loaded modules
C5_QualifiedWhenUnbound ==
    \A t \in Threads :
        (/\ ResolveDone(t)
         /\ Qualified(name[t])
         /\ Unbound(t)
         /\ Exposes(ModulePart(name[t]), MemberPart(name[t]))
         /\ attrs[ModulePart(name[t])][MemberPart(name[t])] # None) =>
            /\ ret[t] = Returned(attrs[ModulePart(name[t])][MemberPart(name[t])])
            /\ seen[t].imported
            /\ ~seen[t].scanned
\* p.B.f resolved to the attribute of p.B while the table holds another alias and
\* module A exposes an f of its own
C5_Witness ==
    /\ ResolveDone("t1")
    /\ name["t1"] = N_pBf
    /\ Unbound("t1")
    /\ attrs[M_pB][N_f] = FunB
    /\ attrs[M_A][N_f] = FunA
    /\ M_A \in sys_modules
    /\ GlobalAliases[N_f] = FunA
    /\ ret["t1"] = Returned(FunB)

C7_SimpleScan ==
    \A t \in Threads :
        (ResolveDone(t) /\ name[t] \in {N_f, N_g} /\ Unbound(t)) =>
            /\ seen[t].scanned
            /\ ~seen[t].imported
            /\ TruthyMods(t, name[t]) = {} => ret[t] = Raised("NotFound")
            /\ \A m \in Modules :
                  TruthyMods(t, name[t]) = {m} => ret[t] = Returned(attrs[m][name[t]])
\* f is returned from the one module exposing it truthy, a second loaded
\* module exposing f = 0
C7_Witness ==
    /\ ResolveDone("t1")
    /\ name["t1"] = N_f
    /\ Unbound("t1")
    /\ seen["t1"].loaded = Modules
    /\ attrs[M_A][N_f] = Zero
    /\ attrs[M_p][N_f] = Five
    /\ attrs[M_pB][N_f] = None
    /\ ret["t1"] = Returned(Five)

\* C8: with more than one loaded module exposing a truthy attribute of an unbound
\* name without separator, the outcome is AmbiguousName, naming the defining
\* modules, exactly when the attributes have more than one defining module; two
\* modules each defining their own give AmbiguousName naming both; when the
\* attributes are all defined in one of the candidates, its attribute is returned
C8_Ambiguity ==
    \A t \in Threads :
        (/\ ResolveDone(t)
         /\ name[t] \in {N_f, N_g}
         /\ Unbound(t)
         /\ Cardinality(TruthyMods(t, name[t])) > 1) =>
            /\ ret[t].kind = "AmbiguousName" <=> Cardinality(DefiningMods(t, name[t])) > 1
            /\ ret[t].kind = "AmbiguousName" => ret[t].mods = DefiningMods(t, name[t])
            /\ \A a, b \in TruthyMods(t, name[t]) :
                  (/\ a # b
                   /\ DefinedIn(attrs[a][name[t]]) = a
                   /\ DefinedIn(attrs[b][name[t]]) = b) =>
                      ret[t].kind = "AmbiguousName" /\ {a, b} \subseteq ret[t].mods
            /\ \A a \in TruthyMods(t, name[t]) :
                  DefiningMods(t, name[t]) = {a} => ret[t] = Returned(attrs[a][name[t]])
\* the package p imports f from A: both expose it and the result is A's f
C8_Witness ==
    /\ ResolveDone("t1")
    /\ name["t1"] = N_f
    /\ Unbound("t1")
    /\ seen["t1"].loaded = {M_A, M_p}
    /\ attrs[M_A][N_f] = FunA
    /\ attrs[M_p][N_f] = FunA
    /\ ret["t1"] = Returned(FunA)

\* the log entry of the call thread t is running
CurrentCall(t) == log[CHOOSE i \in DOMAIN log :
                          log[i].thread = t /\ \A j \in DOMAIN log : log[j].thread = t => j <= i]
Elements(ns) == {ns[i] : i \in DOMAIN ns}
\* t has just read, under the lock, a name the running alias call of u has stored
ReadsFrom(t, u) ==
    /\ pc[t] = "r_release"
    /\ InAlias(u)
    /\ name[t] \in Elements(CurrentCall(u).names) \ Elements(names[u])
    /\ seen[t].atRead = CurrentCall(u).obj
    /\ seen[t].atRead # None
\* C9: an alias call with several names stores them as one atomic step: a
\* resolve_name call that reads one of the names bound by a running alias call
\* finds that call has stored all of its names, and after two calls on the same
\* names every name is bound to the object of the same call
C9_AtomicRegistration ==
    /\ \A t, u \in Threads : ReadsFrom(t, u) => names[u] = <<>>
    /\ (/\ AllReturned
        /\ Len(log) = 2
        /\ log[1].thread # log[2].thread
        /\ log[1].names = log[2].names) =>
           \E i \in DOMAIN log : \A a \in DOMAIN log[i].names :
               GlobalAliases[log[i].names[a]] = log[i].obj

\* C10: a resolve_name call that went on to scan the loaded modules returns a value
\* or fails with one of the four documented kinds
C10_OnlyDocumentedFailures ==
    \A t \in Threads :
        (ResolveDone(t) /\ seen[t].scanned) =>
            ret[t].kind \in {"return"} \cup ValueErrorKinds

====
